---------------------------- MODULE Spec2Model ----------------------------
(***************************************************************************)
(* A model of the log_limit crate (src/src/lib.rs): the thread-local       *)
(* RateLimiter and the shared SynchronisedRateLimiter, both built with the *)
(* "warning-messages" feature, so that the diagnostics are part of the     *)
(* behaviour.                                                              *)
(*                                                                         *)
(* Time is a discrete monotonic clock (Instant::now()); a Duration is a    *)
(* number of clock units.  The caller's action (the closure `log`) and the *)
(* two diagnostics (log::warn!) are recorded as events.                    *)
(*                                                                         *)
(* The drivers are told apart by `mode`:                                   *)
(*   "sequential"  one thread calls both limiters at arbitrary instants;   *)
(*   "arguments"   the same, with arguments that change from call to call; *)
(*   "scenario"    the loop of tests::logger_limits_correctly;             *)
(*   "concurrent"  NumThreads threads share one SynchronisedRateLimiter,   *)
(*                 interleaved at the grain of its atomic operations.      *)
(*   "failing"     the same, with an action that may panic.                *)
(***************************************************************************)
EXTENDS Integers, Sequences, FiniteSets

(***************************************************************************)
(* Bounds of the model.                                                    *)
(***************************************************************************)
MaxTime == 8
MaxCalls == 8
MaxPeriod == 3
MaxThreshold == 3
NumThreads == 2
ConcMaxTime == 4
ConcMaxCalls == 4
ConcMaxPeriod == 1
ConcMaxThreshold == 2
FailMaxCalls == 3
ArgMaxTime == 4
ArgMaxCalls == 4
ArgMaxPeriod == 2
ArgMaxThreshold == 2
UsizeBits == 16

VARIABLES
    mode,             \* which driver runs
    clock,            \* Instant::now()
    period,           \* the `period` argument, fixed per run
    max_per_time,     \* the `max_per_time` argument, fixed per run
    overflow_checks,  \* build profile: TRUE panics on integer overflow, FALSE wraps
    rl,               \* the RateLimiter: [count, timestamp]
    srl,              \* the SynchronisedRateLimiter behind its LazyLock
    calls,            \* number of log_maybe calls made by the sequential drivers
    obs,              \* sequential drivers: what each limiter's calls did (history)
    pc,               \* concurrent driver: each thread's position in log_maybe
    loc,              \* concurrent driver: each thread's locals and call record
    win               \* concurrent driver: events since the last rollover (history)

vars == <<mode, clock, period, max_per_time, overflow_checks, rl, srl, calls,
          obs, pc, loc, win>>

(***************************************************************************)
(* Events: an execution of the caller's action, and the two diagnostics.   *)
(***************************************************************************)
LogEvent == [kind |-> "log", n |-> 0]
HitEvent == [kind |-> "hit", n |-> 0]
IgnoredEvent(n) == [kind |-> "ignored", n |-> n]

CountKind(events, kind) ==
    Cardinality({i \in DOMAIN events : events[i].kind = kind})

(***************************************************************************)
(* usize and Instant arithmetic.  usize is 64 bits wide on the usual       *)
(* targets; the model keeps the wrap-around but at UsizeBits bits, far     *)
(* above every count a bounded run reaches.                                *)
(***************************************************************************)
Usize == 2 ^ UsizeBits

WrappingSub(a, b) == (a - b + Usize) % Usize

WrappingAdd(a, b) == (a + b) % Usize

\* Instant::duration_since saturates to zero when `earlier` is later than self.
DurationSince_mut(now, earlier) == IF now >= earlier THEN now - earlier ELSE earlier - now
DurationSince(now, earlier) == IF now >= earlier THEN now - earlier ELSE 0

(***************************************************************************)
(* RateLimiter (lib.rs 14-69).                                             *)
(*                                                                         *)
(* Here and below a definition named X_mut is X with a plausible slip      *)
(* (an off-by-one, a non-strict comparison); the properties are checked    *)
(* to fail when X is replaced by it.                                       *)
(***************************************************************************)
RateLimiter_new(now) == [count |-> 0, timestamp |-> now]

\* `self.count < max_per_time`
UnderThreshold_mut(count, max) == count <= max
UnderThreshold(count, max) == count < max

\* `calculated_duration > period`
PeriodElapsed_mut(calculated_duration, per) == calculated_duration >= per
PeriodElapsed(calculated_duration, per) == calculated_duration > per

\* `self.count - max_per_time`, computed only where count >= max_per_time
FilteredLogCount_mut(count, max) == WrappingSub(count, max) + 1
FilteredLogCount(count, max) == WrappingSub(count, max)

\* the diagnostic of a rollover: `if filtered_log_count > 0 { log::warn!(..) }`
IgnoredWarning(filtered_log_count) ==
    IF filtered_log_count > 0 THEN <<IgnoredEvent(filtered_log_count)>> ELSE <<>>

\* the diagnostic of the under-threshold branch: `if count == max_per_time`
HitWarning_mut(count, max) == IF count + 1 = max THEN <<HitEvent>> ELSE <<>>
HitWarning(count, max) == IF count = max THEN <<HitEvent>> ELSE <<>>

\* The whole call: the limiter after it, the branch taken and the events emitted.
RateLimiter_log_maybe(self, now, per, max) ==
    LET calculated_duration == DurationSince(now, self.timestamp) IN
    IF UnderThreshold(self.count, max)
    THEN [count |-> self.count + 1, timestamp |-> self.timestamp,
          branch |-> "under",
          events |-> <<LogEvent>> \o HitWarning(self.count + 1, max)]
    ELSE IF PeriodElapsed(calculated_duration, per)
    THEN [count |-> 1, timestamp |-> now,
          branch |-> "rollover",
          events |-> IgnoredWarning(FilteredLogCount(self.count, max))
                       \o <<LogEvent>>]
    ELSE [count |-> self.count + 1, timestamp |-> self.timestamp,
          branch |-> "suppress",
          events |-> <<>>]

(***************************************************************************)
(* SynchronisedRateLimiter (lib.rs 71-118).                                *)
(***************************************************************************)
\* Before the LazyLock is forced there is no limiter; `init` tells.
SynchronisedRateLimiter_new ==
    [init |-> FALSE, count |-> 0, timestamp |-> 0, poisoned |-> FALSE,
     holder |-> 0]

\* The LazyLock's initialiser runs once, on the first dereference.
LazyForce(self, now) ==
    IF self.init THEN self
    ELSE [init |-> TRUE, count |-> 0, timestamp |-> now, poisoned |-> FALSE,
          holder |-> 0]

\* `self.count.fetch_add(1, Relaxed) + 1`
FetchAddResult_mut(count) == WrappingAdd(count, 2)
FetchAddResult(count) == WrappingAdd(count, 1)

\* `count <= max_per_time`
FastPath_mut(count, max) == count <= max + 1
FastPath(count, max) == count <= max

\* `calculated_duration > period`, under the lock
WindowElapsed_mut(now, timestamp, per) == DurationSince(now, timestamp) >= per
WindowElapsed(now, timestamp, per) == DurationSince(now, timestamp) > per

\* the value `swap(1, Relaxed)` stores
SwapValue_mut == 1 - 1
SwapValue == 1

\* `swap(..) - max_per_time - 1` overflows when the swapped-out count is small
SubOverflows(pre_swap, max) == pre_swap < max + 1

\* `self.count.swap(1, Relaxed) - max_per_time - 1`, wrapping (overflow checks off)
SyncFilteredLogCount_mut(pre_swap, max) == WrappingSub(pre_swap, max)
SyncFilteredLogCount(pre_swap, max) == WrappingSub(WrappingSub(pre_swap, max), 1)

\* The whole call by a single thread.  `checks` is the build's overflow checking.
SynchronisedRateLimiter_log_maybe(self0, now, per, max, checks) ==
    LET self == LazyForce(self0, now)
        count == FetchAddResult(self.count)
    IN
    IF FastPath(count, max)
    THEN [limiter |-> [self EXCEPT !.count = count],
          branch |-> "under",
          events |-> <<LogEvent>> \o HitWarning(count, max)]
    ELSE IF self.poisoned
    THEN [limiter |-> [self EXCEPT !.count = count],
          branch |-> "panic",
          events |-> <<>>]
    ELSE IF WindowElapsed(now, self.timestamp, per)
    THEN IF checks /\ SubOverflows(count, max)
         THEN [limiter |-> [self EXCEPT !.count = SwapValue, !.poisoned = TRUE],
               branch |-> "panic",
               events |-> <<>>]
         ELSE [limiter |-> [self EXCEPT !.count = SwapValue, !.timestamp = now],
               branch |-> "rollover",
               events |-> IgnoredWarning(SyncFilteredLogCount(count, max))
                            \o <<LogEvent>>]
    ELSE [limiter |-> [self EXCEPT !.count = count],
          branch |-> "suppress",
          events |-> <<>>]

(***************************************************************************)
(* History of the sequential drivers: what the calls of one limiter did.   *)
(* A window runs from a rollover (or from creation) to the next rollover.  *)
(***************************************************************************)
Variants == {"RateLimiter", "SynchronisedRateLimiter"}

NoCall ==
    [now |-> -1, pre_count |-> 0, pre_timestamp |-> 0, pre_suppressed |-> 0,
     post_count |-> 0, post_timestamp |-> 0, branch |-> "none", events |-> <<>>]

ObsInit(t0) ==
    [t0 |-> t0,              \* the initial window_start (-1: not created yet)
     last |-> NoCall,        \* the last call
     win_calls |-> 0,        \* calls since the last rollover, itself included
     win_logs |-> 0,         \* action executions since then, its own included
     win_suppressed |-> 0,   \* calls since then that did not execute the action
     win_hits |-> 0,         \* "Hit logging threshold" diagnostics since then
     total_logs |-> 0,       \* action executions since creation
     total_warns |-> 0,      \* diagnostics since creation
     rollovers |-> 0,        \* rollovers since creation
     drops |-> <<>>]         \* the N of every "Ignored N logs" diagnostic

Observe(o, t0, now, pre, post, branch, events) ==
    LET logs == CountKind(events, "log")
        hits == CountKind(events, "hit")
        ignored == SelectSeq(events, LAMBDA e : e.kind = "ignored")
        rolled == branch = "rollover"
        quiet == IF logs = 0 THEN 1 ELSE 0
    IN
    [t0 |-> t0,
     last |-> [now |-> now, pre_count |-> pre.count,
               pre_timestamp |-> pre.timestamp,
               pre_suppressed |-> o.win_suppressed,
               post_count |-> post.count, post_timestamp |-> post.timestamp,
               branch |-> branch, events |-> events],
     win_calls |-> IF rolled THEN 1 ELSE o.win_calls + 1,
     win_logs |-> IF rolled THEN logs ELSE o.win_logs + logs,
     win_suppressed |-> IF rolled THEN 0 ELSE o.win_suppressed + quiet,
     win_hits |-> IF rolled THEN hits ELSE o.win_hits + hits,
     total_logs |-> o.total_logs + logs,
     total_warns |-> o.total_warns + hits + Len(ignored),
     rollovers |-> o.rollovers + (IF rolled THEN 1 ELSE 0),
     drops |-> o.drops \o [i \in 1..Len(ignored) |-> ignored[i].n]]

\* One thread calls log_maybe on both limiters at the instant `clock`.  The two
\* limiters are separate objects: each one's state depends on its own calls only.
LogMaybeWith(per, max) ==
    LET r == RateLimiter_log_maybe(rl, clock, per, max)
        forced == LazyForce(srl, clock)
        s == SynchronisedRateLimiter_log_maybe(srl, clock, per, max, overflow_checks)
    IN
    /\ rl' = [count |-> r.count, timestamp |-> r.timestamp]
    /\ srl' = s.limiter
    /\ calls' = calls + 1
    /\ obs' = [obs EXCEPT
         !["RateLimiter"] =
             Observe(@, @.t0, clock, rl, r, r.branch, r.events),
         !["SynchronisedRateLimiter"] =
             Observe(@, IF srl.init THEN @.t0 ELSE forced.timestamp, clock,
                     forced, s.limiter, s.branch, s.events)]

\* The drivers with fixed arguments pass `period` and `max_per_time`.
LogMaybeBoth == LogMaybeWith(period, max_per_time)

Threads == 1..NumThreads

IdleThreads == [t \in Threads |-> "idle"]

\* A thread's locals in log_maybe; they are dead once the call has returned.
NoLocal ==
    [count |-> 0,        \* `count`: the result of fetch_add + 1
     now |-> 0,          \* `now`
     pre_swap |-> 0,     \* the value swap(1) returned
     rolled |-> FALSE,   \* the call entered `if calculated_duration > period`
     stale |-> FALSE,    \* a rollover came between its fetch_add and its log()
     beaten |-> -1]      \* it waited for the lock, its `now` read, when another
                         \* call passed the check: that call's `now`

NoLocals == [t \in Threads |-> NoLocal]

\* History of the concurrent driver.  A window runs from a rollover (the swap
\* of count) to the next one.
NoWindow ==
    [logs |-> 0,         \* executions of the action in the window
     stale_logs |-> 0,   \* those by calls whose fetch_add was before the rollover
     hits |-> 0,         \* "Hit logging threshold" diagnostics in the window
     stale_hits |-> 0,   \* those by calls whose fetch_add was before the rollover
     hit_counts |-> 0,   \* calls of the window whose fetch_add gave max_per_time
     rollovers |-> 0,    \* calls that entered the rollover branch, so far
     ignored |-> 0,      \* "Ignored N logs" diagnostics, so far
     written |-> <<>>,   \* every value a rollover wrote to window_start
     burst_logs |-> 0,   \* executions of the action by beaten calls, so far
     near_logs |-> 0,    \* those with `now` at most a period after the winner's
     near_quiet |-> 0,   \* beaten calls that close that returned without one
     all_logs |-> 0,     \* executions of the action, so far
     all_drops |-> 0]    \* the sum of the filtered_log_count of every rollover

(***************************************************************************)
(* The sequential driver: any calls at any non-decreasing instants.        *)
(***************************************************************************)
Init ==
    /\ mode = "sequential"
    /\ clock = 0
    /\ period \in 1..MaxPeriod
    /\ max_per_time \in 1..MaxThreshold
    /\ overflow_checks \in BOOLEAN
    /\ rl = RateLimiter_new(0)
    /\ srl = SynchronisedRateLimiter_new
    /\ calls = 0
    /\ obs = [v \in Variants |->
                IF v = "RateLimiter" THEN ObsInit(0) ELSE ObsInit(-1)]
    /\ pc = IdleThreads
    /\ loc = NoLocals
    /\ win = NoWindow

Tick ==
    /\ mode = "sequential"
    /\ clock < MaxTime
    /\ clock' = clock + 1
    /\ UNCHANGED <<mode, period, max_per_time, overflow_checks, rl, srl, calls,
                   obs, pc, loc, win>>

Call ==
    /\ mode = "sequential"
    /\ calls < MaxCalls
    /\ LogMaybeBoth
    /\ UNCHANGED <<mode, clock, period, max_per_time, overflow_checks, pc, loc,
                   win>>

Next == Tick \/ Call

Spec == Init /\ [][Next]_vars

(***************************************************************************)
(* The loop of tests::logger_limits_correctly (lib.rs 278-301): eleven     *)
(* calls with max_per_time 2 and a period of 50ms, a sleep of 11ms after   *)
(* each.  The clock unit is 1ms; both limiters are created by the first    *)
(* call (thread_local! and LazyLock are both lazy).                        *)
(***************************************************************************)
ScenarioCalls == 11
ScenarioThreshold == 2
ScenarioPeriod == 50
ScenarioSleep == 11

InitScenario ==
    /\ mode = "scenario"
    /\ clock = 0
    /\ period = ScenarioPeriod
    /\ max_per_time = ScenarioThreshold
    /\ overflow_checks \in BOOLEAN
    /\ rl = RateLimiter_new(0)
    /\ srl = SynchronisedRateLimiter_new
    /\ calls = 0
    /\ obs = [v \in Variants |->
                IF v = "RateLimiter" THEN ObsInit(0) ELSE ObsInit(-1)]
    /\ pc = IdleThreads
    /\ loc = NoLocals
    /\ win = NoWindow

\* `info_limit!(..)` / `info_limit_global!(..)`: the next iteration's call
ScenarioCall ==
    /\ mode = "scenario"
    /\ calls < ScenarioCalls
    /\ clock = calls * ScenarioSleep
    /\ LogMaybeBoth
    /\ UNCHANGED <<mode, clock, period, max_per_time, overflow_checks, pc, loc,
                   win>>

\* `thread::sleep(Duration::from_millis(11))`, one millisecond of it
ScenarioSleepTick ==
    /\ mode = "scenario"
    /\ clock < calls * ScenarioSleep
    /\ clock' = clock + 1
    /\ UNCHANGED <<mode, period, max_per_time, overflow_checks, rl, srl, calls,
                   obs, pc, loc, win>>

NextScenario == ScenarioCall \/ ScenarioSleepTick

SpecScenario == InitScenario /\ [][NextScenario]_vars

(***************************************************************************)
(* Claims about sequential use (specification Spec).                       *)
(***************************************************************************)
Ignoreds(events) == SelectSeq(events, LAMBDA e : e.kind = "ignored")

\* C1 (cap property): for either limiter driven sequentially with a fixed
\* threshold and period, the number of action executions since the last
\* rollover (the rollover call's own execution included), or since creation
\* before the first rollover, never exceeds the threshold.
C1_CapProperty ==
    \A v \in Variants : obs[v].win_logs <= max_per_time

\* C1 witness: both limiters have rolled over, have used up the whole
\* threshold of the new window and have then suppressed a call.
C1_Witness ==
    \A v \in Variants :
        /\ obs[v].rollovers >= 1
        /\ obs[v].win_logs = max_per_time
        /\ obs[v].win_suppressed >= 1

\* The number of periods that have begun in [t0, now]: the least value that
\* ceil(T / period) takes over the T with now < t0 + T.
PeriodsBegun(v) == (obs[v].last.now - obs[v].t0) \div period + 1

\* C2 (long-run rate bound): with every call made at an instant of
\* [t0, t0 + T), t0 the initial window_start, the action is executed at most
\* threshold * ceil(T / period) times and at most 2 diagnostics are emitted per
\* period.
C2_RateBound ==
    \A v \in Variants :
        obs[v].last.branch # "none" =>
            /\ obs[v].total_logs <= max_per_time * PeriodsBegun(v)
            /\ obs[v].total_warns <= 2 * PeriodsBegun(v)

\* C2 witness: three full windows, two of them opened by a rollover.
C2_Witness ==
    \A v \in Variants :
        /\ obs[v].rollovers = 2
        /\ obs[v].total_logs = 3 * max_per_time
        /\ obs[v].total_warns >= 3

\* C3 (drop accounting): at every rollover the drop count equals the number of
\* calls that did not execute the action since the previous rollover (or since
\* creation); it is reported by one "Ignored N logs" diagnostic when it is
\* positive and by none when it is zero.
C3_DropAccounting ==
    \A v \in Variants :
        obs[v].last.branch = "rollover" =>
            Ignoreds(obs[v].last.events) =
                IF obs[v].last.pre_suppressed > 0
                THEN <<IgnoredEvent(obs[v].last.pre_suppressed)>>
                ELSE <<>>

\* C3 witness: a second rollover that reports two suppressed calls, after a
\* first one that had none to report.
C3_Witness ==
    \A v \in Variants :
        /\ obs[v].last.branch = "rollover"
        /\ obs[v].rollovers = 2
        /\ obs[v].last.pre_suppressed = 2
        /\ obs[v].drops = <<2>>

\* C4 (decision rule, strict boundary): a call does not execute the action if
\* and only if the count before the call is at least the threshold and
\* now - window_start <= period; so a call exactly on the boundary is
\* suppressed and the first call past it executes the action.
C4_DecisionRule ==
    \A v \in Variants :
        obs[v].last.branch # "none" =>
            (CountKind(obs[v].last.events, "log") = 0
                <=> /\ obs[v].last.pre_count >= max_per_time
                    /\ obs[v].last.now - obs[v].last.pre_timestamp <= period)

\* C4 witness: a call landing exactly on the boundary was suppressed by both.
C4_Witness ==
    \A v \in Variants :
        /\ obs[v].last.pre_count >= max_per_time
        /\ obs[v].last.now - obs[v].last.pre_timestamp = period
        /\ obs[v].last.branch = "suppress"
        /\ obs[v].rollovers >= 1

(***************************************************************************)
(* Claims about the test loop (specification SpecScenario).                *)
(***************************************************************************)
\* C5 (scenario A totals): threshold 2, period 50ms, eleven calls 11ms apart
\* from the creation of the limiter: the action is executed 5 times and 4
\* diagnostics are emitted, 2 of them "Ignored" ones, each reporting 3.
C5_ScenarioTotals ==
    calls = ScenarioCalls =>
        \A v \in Variants :
            /\ obs[v].total_logs = 5
            /\ obs[v].total_warns = 4
            /\ obs[v].drops = <<3, 3>>

\* C5 witness: the eleventh call, at 110ms, has been made and rolled over.
C5_Witness ==
    /\ calls = ScenarioCalls
    /\ \A v \in Variants :
        /\ obs[v].last.now = 110
        /\ obs[v].last.branch = "rollover"

(***************************************************************************)
(* The concurrent driver: NumThreads threads call log_maybe on one shared  *)
(* SynchronisedRateLimiter (lib.rs 85-117).  A step is one access to the   *)
(* shared state: the fetch_add, the reading of the clock, the taking of    *)
(* the lock with the comparison under it, the swap, and the execution of   *)
(* the action with the store of the timestamp that ends the critical       *)
(* section.  A thread may be delayed for any time between two steps.       *)
(***************************************************************************)
InitConcurrent ==
    /\ mode = "concurrent"
    /\ clock = 0
    /\ period \in 1..ConcMaxPeriod
    /\ max_per_time \in 1..ConcMaxThreshold
    /\ overflow_checks \in BOOLEAN
    /\ rl = RateLimiter_new(0)
    /\ srl = SynchronisedRateLimiter_new
    /\ calls = 0
    /\ obs = [v \in Variants |-> ObsInit(-1)]
    /\ pc = IdleThreads
    /\ loc = NoLocals
    /\ win = NoWindow

\* The drivers with concurrent callers: with an action that always returns,
\* and with one that may panic.
ConcurrentModes == {"concurrent", "failing"}

\* The number of calls a run of the driver makes, at most.
CallBudget == IF mode = "failing" THEN FailMaxCalls ELSE ConcMaxCalls

ConcTick ==
    /\ mode \in ConcurrentModes
    /\ clock < ConcMaxTime
    /\ clock' = clock + 1
    /\ UNCHANGED <<mode, period, max_per_time, overflow_checks, rl, srl, calls,
                   obs, pc, loc, win>>

\* The call begins: the LazyLock is dereferenced, then
\* `let count = self.count.fetch_add(1, Relaxed) + 1; if count <= max_per_time`
FetchAdd(t) ==
    LET self == LazyForce(srl, clock)
        count == FetchAddResult(self.count)
        fast == FastPath(count, max_per_time)
    IN
    /\ mode \in ConcurrentModes
    /\ pc[t] = "idle"
    /\ calls < CallBudget
    /\ calls' = calls + 1
    /\ srl' = [self EXCEPT !.count = count]
    /\ loc' = [loc EXCEPT ![t] = [NoLocal EXCEPT !.count = count]]
    /\ pc' = [pc EXCEPT ![t] = IF fast THEN "fast_log" ELSE "read_now"]
    /\ win' = [win EXCEPT !.hit_counts =
                 @ + (IF fast THEN Len(HitWarning(count, max_per_time)) ELSE 0)]
    /\ UNCHANGED <<mode, clock, period, max_per_time, overflow_checks, rl, obs>>

\* `log(); if count == max_per_time { log::warn!(..) }`: no lock is taken
FastLog(t) ==
    LET hits == Len(HitWarning(loc[t].count, max_per_time))
        late == IF loc[t].stale THEN 1 ELSE 0
    IN
    /\ mode \in ConcurrentModes
    /\ pc[t] = "fast_log"
    /\ loc' = [loc EXCEPT ![t] = NoLocal]
    /\ pc' = [pc EXCEPT ![t] = "idle"]
    /\ win' = [win EXCEPT !.logs = @ + 1, !.stale_logs = @ + late,
                          !.hits = @ + hits, !.stale_hits = @ + late * hits,
                          !.all_logs = @ + 1]
    /\ UNCHANGED <<mode, clock, period, max_per_time, overflow_checks, rl, srl,
                   calls, obs>>

\* `let now = Instant::now();`
ReadNow(t) ==
    /\ mode \in ConcurrentModes
    /\ pc[t] = "read_now"
    /\ loc' = [loc EXCEPT ![t].now = clock]
    /\ pc' = [pc EXCEPT ![t] = "lock"]
    /\ UNCHANGED <<mode, clock, period, max_per_time, overflow_checks, rl, srl,
                   calls, obs, win>>

\* `self.timestamp.lock().unwrap()` on a poisoned mutex: the call panics
LockPoisoned(t) ==
    /\ mode \in ConcurrentModes
    /\ pc[t] = "lock"
    /\ srl.holder = 0
    /\ srl.poisoned
    /\ pc' = [pc EXCEPT ![t] = "panicked"]
    /\ UNCHANGED <<mode, clock, period, max_per_time, overflow_checks, rl, srl,
                   calls, obs, loc, win>>

\* Thread t's call was beaten to the rollover by a call whose `now` is at most
\* a period before its own.
BeatenNear(t) ==
    loc[t].beaten >= 0 /\ loc[t].now - loc[t].beaten <= period

\* The lock is taken and `calculated_duration > period` holds: the call goes on
\* to roll the window over.  The other calls that wait for the lock with their
\* `now` already read are the burst this call wins.
LockElapsed(t) ==
    /\ mode \in ConcurrentModes
    /\ pc[t] = "lock"
    /\ srl.holder = 0
    /\ ~srl.poisoned
    /\ WindowElapsed(loc[t].now, srl.timestamp, period)
    /\ srl' = [srl EXCEPT !.holder = t]
    /\ pc' = [pc EXCEPT ![t] = "swap"]
    /\ loc' = [u \in Threads |->
                 IF u = t THEN [loc[u] EXCEPT !.rolled = TRUE]
                 ELSE IF pc[u] = "lock" /\ loc[u].beaten = -1
                 THEN [loc[u] EXCEPT !.beaten = loc[t].now]
                 ELSE loc[u]]
    /\ UNCHANGED <<mode, clock, period, max_per_time, overflow_checks, rl, calls,
                   obs, win>>

\* The lock is taken and the period has not elapsed: nothing is done and the
\* guard is dropped at the end of the block.
LockSuppress(t) ==
    /\ mode \in ConcurrentModes
    /\ pc[t] = "lock"
    /\ srl.holder = 0
    /\ ~srl.poisoned
    /\ ~WindowElapsed(loc[t].now, srl.timestamp, period)
    /\ pc' = [pc EXCEPT ![t] = "idle"]
    /\ loc' = [loc EXCEPT ![t] = NoLocal]
    /\ win' = [win EXCEPT !.near_quiet = @ + (IF BeatenNear(t) THEN 1 ELSE 0)]
    /\ UNCHANGED <<mode, clock, period, max_per_time, overflow_checks, rl, srl,
                   calls, obs>>

\* The history of a rollover: a new window begins at the swap, and the calls
\* that are past their fetch_add but not yet past their log() are stale.
RolloverWindow == [win EXCEPT !.logs = 0, !.stale_logs = 0, !.hits = 0,
                              !.stale_hits = 0, !.hit_counts = 0,
                              !.rollovers = @ + 1]

MarkStale(t, l) ==
    [u \in Threads |->
        IF u = t THEN l
        ELSE IF pc[u] = "fast_log" THEN [loc[u] EXCEPT !.stale = TRUE]
        ELSE loc[u]]

\* `self.count.swap(1, Relaxed) - max_per_time - 1` where the subtraction
\* overflows and the build checks overflow: the call panics while it holds the
\* guard, which poisons the mutex.
SwapPanic(t) ==
    /\ mode \in ConcurrentModes
    /\ pc[t] = "swap"
    /\ overflow_checks
    /\ SubOverflows(srl.count, max_per_time)
    /\ srl' = [srl EXCEPT !.count = SwapValue, !.poisoned = TRUE, !.holder = 0]
    /\ pc' = [pc EXCEPT ![t] = "panicked"]
    /\ loc' = MarkStale(t, [loc[t] EXCEPT !.pre_swap = srl.count])
    /\ win' = RolloverWindow
    /\ UNCHANGED <<mode, clock, period, max_per_time, overflow_checks, rl, calls,
                   obs>>

\* `let filtered_log_count = self.count.swap(1, Relaxed) - max_per_time - 1;
\*  if filtered_log_count > 0 { log::warn!(..) }`
Swap(t) ==
    LET filtered_log_count == SyncFilteredLogCount(srl.count, max_per_time)
        warned == IgnoredWarning(filtered_log_count)
    IN
    /\ mode \in ConcurrentModes
    /\ pc[t] = "swap"
    /\ ~(overflow_checks /\ SubOverflows(srl.count, max_per_time))
    /\ srl' = [srl EXCEPT !.count = SwapValue]
    /\ pc' = [pc EXCEPT ![t] = "slow_log"]
    /\ loc' = MarkStale(t, [loc[t] EXCEPT !.pre_swap = srl.count])
    /\ win' = [RolloverWindow EXCEPT !.ignored = @ + Len(warned),
                                     !.all_drops = @ + filtered_log_count]
    /\ UNCHANGED <<mode, clock, period, max_per_time, overflow_checks, rl, calls,
                   obs>>

\* `log(); *timestamp = now;` and the guard is dropped
SlowLog(t) ==
    /\ mode \in ConcurrentModes
    /\ pc[t] = "slow_log"
    /\ srl' = [srl EXCEPT !.timestamp = loc[t].now, !.holder = 0]
    /\ pc' = [pc EXCEPT ![t] = "idle"]
    /\ loc' = [loc EXCEPT ![t] = NoLocal]
    /\ win' = [win EXCEPT
         !.logs = @ + 1,
         !.written = Append(@, loc[t].now),
         !.burst_logs = @ + (IF loc[t].beaten >= 0 THEN 1 ELSE 0),
         !.near_logs = @ + (IF BeatenNear(t) THEN 1 ELSE 0),
         !.all_logs = @ + 1]
    /\ UNCHANGED <<mode, clock, period, max_per_time, overflow_checks, rl, calls,
                   obs>>

NextConcurrent ==
    \/ ConcTick
    \/ \E t \in Threads :
        \/ FetchAdd(t)
        \/ FastLog(t)
        \/ ReadNow(t)
        \/ LockPoisoned(t)
        \/ LockElapsed(t)
        \/ LockSuppress(t)
        \/ SwapPanic(t)
        \/ Swap(t)
        \/ SlowLog(t)

SpecConcurrent == InitConcurrent /\ [][NextConcurrent]_vars

(***************************************************************************)
(* Both drivers in one specification, for the claims that speak of the     *)
(* sequential and of the concurrent use.                                   *)
(***************************************************************************)
InitAll == Init \/ InitConcurrent

NextAll == Next \/ NextConcurrent

SpecAll == InitAll /\ [][NextAll]_vars

(***************************************************************************)
(* Claims about concurrent use (specification SpecConcurrent).             *)
(***************************************************************************)
\* C6 (single rollover per elapsed period): every rollover executes the action
\* exactly once and emits at most one drop diagnostic, and the window_start
\* values written by any two rollovers differ by more than the period,
\* however many threads are in the slow path.
C6_SingleRollover ==
    /\ srl.holder = 0 => Len(win.written) = win.rollovers
    /\ win.ignored <= win.rollovers
    /\ \A i, j \in DOMAIN win.written :
          i < j => win.written[j] - win.written[i] > period

C8_BoundedOvershoot ==
    /\ win.logs <= max_per_time + NumThreads
    /\ win.logs - win.stale_logs <= max_per_time

\* C8 witness: a window, opened by a rollover, with more executions than the
\* threshold, one of them by a call from before the rollover.
C8_Witness ==
    /\ win.rollovers >= 1
    /\ win.stale_logs >= 1
    /\ win.logs > max_per_time

\* C9 (the drop count never underflows): at every rollover swap(1) returns at
\* least threshold + 1, so `pre-swap count - max_per_time - 1` neither wraps
\* nor panics.
C9_NoUnderflow ==
    \A t \in Threads :
        loc[t].rolled /\ pc[t] \in {"slow_log", "panicked"} =>
            loc[t].pre_swap >= max_per_time + 1

(***************************************************************************)
(* Claims about both uses (specification SpecAll).                         *)
(***************************************************************************)
\* The sequential part of C10: the diagnostic is emitted exactly by the call
\* that runs on the under-threshold branch and brings count to the threshold;
\* no call runs on that branch after it in the window; it is emitted at most
\* once per window; with threshold 1 the first call executes and emits it.
HitSequential ==
    \A v \in Variants :
        /\ obs[v].last.branch # "none" =>
              (CountKind(obs[v].last.events, "hit") = 1
                  <=> /\ obs[v].last.branch = "under"
                      /\ obs[v].last.post_count = max_per_time)
        /\ obs[v].last.branch = "under" =>
              obs[v].win_hits = CountKind(obs[v].last.events, "hit")
        /\ obs[v].win_hits <= 1
        /\ (max_per_time = 1 /\ calls = 1 /\ mode = "sequential") =>
              obs[v].last.events = <<LogEvent, HitEvent>>

\* C10 (throttling-starts diagnostic) as claimed: the above, and with
\* concurrent callers too the diagnostic is emitted at most once between
\* consecutive rollovers.
C10_HitAsClaimed ==
    /\ HitSequential
    /\ win.hits <= 1

\* C10 as amended: the above for sequential use; with concurrent callers at
\* most one call between consecutive rollovers obtains count = threshold, and
\* at most one diagnostic between them comes from a call that began after the
\* rollover (a call delayed past a rollover emits its own late).
C10_HitOncePerWindow ==
    /\ HitSequential
    /\ win.hit_counts <= 1
    /\ win.hits - win.stale_hits <= 1

\* C10 witness: a window with its own diagnostic and a late one.
C10_Witness ==
    /\ win.hits = 2
    /\ win.stale_hits = 1
    /\ win.hit_counts = 1

(***************************************************************************)
(* Claims about window_start (the field `timestamp`).                      *)
(***************************************************************************)
\* The step is the end of a rollover by the sequential driver: limiter v's
\* call has just taken the rollover branch.
SequentialRollover(v) ==
    /\ calls' = calls + 1
    /\ obs'[v].last.branch = "rollover"

\* The step is thread t's `*timestamp = now;` in the concurrent driver.
TimestampStore(t) == pc[t] = "slow_log" /\ pc'[t] = "idle"

\* C11 (monotonic window start): in no step of either limiter, and under any
\* interleaving of the callers of the shared one, does window_start decrease,
\* and every write to it (by a rollover) strictly increases it.  The creation
\* of the shared limiter by the first call is not a write.
C11_MonotonicWindowStart ==
    [][/\ rl'.timestamp >= rl.timestamp
       /\ SequentialRollover("RateLimiter") => rl'.timestamp > rl.timestamp
       /\ srl.init => srl'.timestamp >= srl.timestamp
       /\ SequentialRollover("SynchronisedRateLimiter") =>
             srl'.timestamp > srl.timestamp
       /\ \A t \in Threads :
             TimestampStore(t) => srl'.timestamp > srl.timestamp]_vars

\* C11 witness: two rollovers by concurrent callers have written window_start,
\* the second one while another call was waiting for the lock.
C11_Witness ==
    /\ mode = "concurrent"
    /\ Len(win.written) >= 2
    /\ srl.timestamp = win.written[Len(win.written)]
    /\ \E t \in Threads : pc[t] = "lock"

(***************************************************************************)
(* Claims about the lock of the shared limiter.                            *)
(***************************************************************************)
\* C12 (lock-free fast path): a call whose fetch_add gave count <= threshold
\* never holds or waits for the timestamp lock and its log() can run in every
\* state, whoever holds the lock; the calls that read the clock, wait for the
\* lock or hold it all obtained count > threshold.
C12_LockFreeFastPath ==
    \A t \in Threads :
        /\ pc[t] = "fast_log" =>
              /\ loc[t].count <= max_per_time
              /\ srl.holder # t
              /\ ENABLED FastLog(t)
        /\ pc[t] \in {"read_now", "lock", "swap", "slow_log"} =>
              loc[t].count > max_per_time
        /\ srl.holder = t => pc[t] \in {"swap", "slow_log"}

\* C12 witness: a rollover has swapped count and still holds the lock, about
\* to run its action, and calls of the fast path have run theirs since the
\* swap and returned.
C12_Witness ==
    /\ srl.holder # 0
    /\ pc[srl.holder] = "slow_log"
    /\ win.logs >= 1
    /\ \A t \in Threads : pc[t] # "fast_log"

(***************************************************************************)
(* The sequential driver with arguments chosen anew at every call:         *)
(* `period` and `max_per_time` are parameters of log_maybe, not fields of  *)
(* the limiter, and max_per_time is any usize, 0 included.  After a call   *)
(* the variables period and max_per_time hold the arguments it was given.  *)
(***************************************************************************)
InitArgs ==
    /\ mode = "arguments"
    /\ clock = 0
    /\ period = 1
    /\ max_per_time = 1
    /\ overflow_checks \in BOOLEAN
    /\ rl = RateLimiter_new(0)
    /\ srl = SynchronisedRateLimiter_new
    /\ calls = 0
    /\ obs = [v \in Variants |->
                IF v = "RateLimiter" THEN ObsInit(0) ELSE ObsInit(-1)]
    /\ pc = IdleThreads
    /\ loc = NoLocals
    /\ win = NoWindow

ArgsTick ==
    /\ mode = "arguments"
    /\ clock < ArgMaxTime
    /\ clock' = clock + 1
    /\ UNCHANGED <<mode, period, max_per_time, overflow_checks, rl, srl, calls,
                   obs, pc, loc, win>>

ArgsCall(per, max) ==
    /\ mode = "arguments"
    /\ calls < ArgMaxCalls
    /\ period' = per
    /\ max_per_time' = max
    /\ LogMaybeWith(per, max)
    /\ UNCHANGED <<mode, clock, overflow_checks, pc, loc, win>>

NextArgs ==
    \/ ArgsTick
    \/ \E per \in 1..ArgMaxPeriod, max \in 0..ArgMaxThreshold : ArgsCall(per, max)

SpecArgs == InitArgs /\ [][NextArgs]_vars

(***************************************************************************)
(* Claims about the two limiters side by side (specification SpecArgs).    *)
(***************************************************************************)
\* C13 (variant equivalence): started with the same window_start and count 0
\* and given the same calls (instant, threshold, period) by one thread, the two
\* limiters emit the same events at every call (the action, the "Hit"
\* diagnostic, the "Ignored N" diagnostic with its N) and have the same count
\* and window_start after it.
C13_VariantEquivalence ==
    (calls >= 1 /\ obs["RateLimiter"].t0 = obs["SynchronisedRateLimiter"].t0) =>
        /\ obs["RateLimiter"].last.events =
              obs["SynchronisedRateLimiter"].last.events
        /\ rl.count = srl.count
        /\ rl.timestamp = srl.timestamp

\* C13 witness: from equal starts, a third call rolled both windows over and
\* reported one ignored call.
C13_Witness ==
    /\ calls = 3
    /\ obs["RateLimiter"].t0 = obs["SynchronisedRateLimiter"].t0
    /\ \A v \in Variants : obs[v].last.events = <<IgnoredEvent(1), LogEvent>>

\* C14 (threshold 0 is rejected): no call made with max_per_time = 0 executes
\* the action or changes count or window_start.
C14_ThresholdZeroRejected ==
    \A v \in Variants :
        (obs[v].last.branch # "none" /\ max_per_time = 0) =>
            /\ CountKind(obs[v].last.events, "log") = 0
            /\ obs[v].last.post_count = obs[v].last.pre_count
            /\ obs[v].last.post_timestamp = obs[v].last.pre_timestamp

(***************************************************************************)
(* The concurrent driver with an action that may panic.  A panic unwinds   *)
(* out of log_maybe and ends the thread; when it unwinds through the slow  *)
(* path it drops the MutexGuard `timestamp` while panicking, which poisons *)
(* the mutex (lib.rs 98, 113).  A panic of the action on the fast path     *)
(* (line 88) holds no lock and comes after the call's only access to the   *)
(* limiter, so it changes nothing another call can see; only the panic     *)
(* inside the rollover is a step of this driver.                           *)
(***************************************************************************)
InitFailing ==
    /\ mode = "failing"
    /\ clock = 0
    /\ period \in 1..ConcMaxPeriod
    /\ max_per_time \in 1..ConcMaxThreshold
    /\ overflow_checks \in BOOLEAN
    /\ rl = RateLimiter_new(0)
    /\ srl = SynchronisedRateLimiter_new
    /\ calls = 0
    /\ obs = [v \in Variants |-> ObsInit(-1)]
    /\ pc = IdleThreads
    /\ loc = NoLocals
    /\ win = NoWindow

\* `log();` inside the rollover panics: `*timestamp = now;` is not reached,
\* count keeps the 1 the swap stored, and the guard is dropped by the unwinding
SlowLogPanic_mut(t) ==
    /\ mode = "failing"
    /\ pc[t] = "slow_log"
    /\ srl' = [srl EXCEPT !.holder = 0]
    /\ pc' = [pc EXCEPT ![t] = "panicked"]
    /\ UNCHANGED <<mode, clock, period, max_per_time, overflow_checks, rl, calls,
                   obs, loc, win>>
SlowLogPanic(t) ==
    /\ mode = "failing"
    /\ pc[t] = "slow_log"
    /\ srl' = [srl EXCEPT !.poisoned = TRUE, !.holder = 0]
    /\ pc' = [pc EXCEPT ![t] = "panicked"]
    /\ UNCHANGED <<mode, clock, period, max_per_time, overflow_checks, rl, calls,
                   obs, loc, win>>

NextFailing ==
    \/ NextConcurrent
    \/ \E t \in Threads : SlowLogPanic(t)

SpecFailing == InitFailing /\ [][NextFailing]_vars

(***************************************************************************)
(* Claims about a failing action (specification SpecFailing).              *)
(***************************************************************************)
\* Thread t's call panicked in its action inside the rollover (and not in the
\* subtraction before it).
FailedInRollover(t) ==
    /\ pc[t] = "panicked"
    /\ loc[t].rolled
    /\ ~(overflow_checks /\ SubOverflows(loc[t].pre_swap, max_per_time))

\* C15 (lock poisoning is fatal): once the action has panicked inside a
\* rollover, every call that comes to take the lock panics too, none
\* suppresses or rolls over, window_start is never written again, and the
\* call that failed stays failed: its action is not run again.
C15_PoisoningFatal ==
    [][(\E t \in Threads : FailedInRollover(t)) =>
          /\ \A u \in Threads :
                /\ (pc[u] = "lock" /\ pc'[u] # "lock") => pc'[u] = "panicked"
                /\ pc'[u] \notin {"swap", "slow_log"}
                /\ pc[u] = "panicked" => pc'[u] = "panicked"
          /\ srl'.timestamp = srl.timestamp
          /\ srl'.poisoned]_vars

\* C15 witness: the action panicked inside a rollover, and a later call that
\* found count > threshold has come to the lock and panicked as well.
C15_Witness ==
    \E t, u \in Threads :
        /\ FailedInRollover(t)
        /\ pc[u] = "panicked"
        /\ ~loc[u].rolled
        /\ loc[u].count > max_per_time

(***************************************************************************)
(* Claims about the accounting of calls (specification SpecConcurrent).    *)
(***************************************************************************)
\* No call is in progress: every thread is between two calls, or dead.
Quiescent == \A t \in Threads : pc[t] \in {"idle", "panicked"}

\* C18 (no lost or double-counted calls): with concurrent callers and a fixed
\* threshold >= 1, whenever no call is in progress the calls made so far are
\* the executions of the action, plus the sum of the drop counts computed at
\* the rollovers, plus max(0, count - threshold).
C18_CallsAccounted ==
    Quiescent =>
        calls = win.all_logs + win.all_drops
                  + (IF srl.count > max_per_time THEN srl.count - max_per_time
                     ELSE 0)

(***************************************************************************)
(* Claims about single calls of the sequential drivers.                    *)
(***************************************************************************)
\* The calls of the test loop are numbered from 1: after the n-th call,
\* calls = n and obs[v].last is what that call did.
Executed(v) == CountKind(obs[v].last.events, "log") = 1

\* C16 (scenario A, call by call) as claimed: on the exclusive limiter the
\* calls that execute the action are exactly calls 1, 2, 6, 10 and 11; call 2
\* emits the "Hit" diagnostic; calls 6 and 11 each report 3 ignored calls.
C16_TraceAsClaimed ==
    calls >= 1 =>
        /\ Executed("RateLimiter") <=> calls \in {1, 2, 6, 10, 11}
        /\ calls = 2 => CountKind(obs["RateLimiter"].last.events, "hit") = 1
        /\ calls \in {6, 11} =>
              Ignoreds(obs["RateLimiter"].last.events) = <<IgnoredEvent(3)>>

\* C16 as amended: the calls that execute the action are exactly calls 1, 2,
\* 6, 7 and 11; calls 3-5 and 8-10 are suppressed; calls 2 and 7 (and no
\* others) emit the "Hit" diagnostic; calls 6 and 11 (and no others) emit an
\* "Ignored" diagnostic, each reporting 3.
C16_ScenarioTrace ==
    calls >= 1 =>
        /\ Executed("RateLimiter") <=> calls \in {1, 2, 6, 7, 11}
        /\ CountKind(obs["RateLimiter"].last.events, "hit") =
              (IF calls \in {2, 7} THEN 1 ELSE 0)
        /\ Ignoreds(obs["RateLimiter"].last.events) =
              (IF calls \in {6, 11} THEN <<IgnoredEvent(3)>> ELSE <<>>)
        /\ obs["RateLimiter"].last.events = <<>> <=> calls \in {3, 4, 5, 8, 9, 10}

\* C16 witness: the seventh call, at 66ms, ran the action and emitted "Hit".
C16_Witness ==
    /\ calls = 7
    /\ obs["RateLimiter"].last.now = 66
    /\ obs["RateLimiter"].last.events = <<LogEvent, HitEvent>>

\* C17 (count invariant, sequential use): after every call of either limiter
\* count is the number of calls since the last rollover, that call included,
\* or since creation; a rollover leaves count = 1 and every other call, run
\* or suppressed, adds exactly 1 to it.
C17_CountInvariant ==
    /\ rl.count = obs["RateLimiter"].win_calls
    /\ srl.count = obs["SynchronisedRateLimiter"].win_calls
    /\ \A v \in Variants :
          obs[v].last.branch # "none" =>
              obs[v].last.post_count =
                  IF obs[v].last.branch = "rollover" THEN 1
                  ELSE obs[v].last.pre_count + 1

\* C17 witness: after a rollover both limiters have run a call and suppressed
\* one, so that count = 3.
C17_Witness ==
    \A v \in Variants :
        /\ obs[v].rollovers >= 1
        /\ obs[v].win_calls = 3
        /\ obs[v].last.branch = "suppress"
        /\ obs[v].last.post_count = 3

(***************************************************************************)
(* Claims about the slow path's reading of the clock and about the frame   *)
(* of window_start.                                                        *)
(***************************************************************************)
\* The step in which thread t takes the lock and passes the elapsed check.
PassesCheck(t) == pc[t] = "lock" /\ pc'[t] = "swap"

\* C19 (re-check under the lock): the `now` a call compares with window_start,
\* and then writes to it, is read after the lock is acquired: it is not
\* earlier than the instant of the acquisition, and it was not read while
\* another call was still to pass the check and roll the window over.
C19_NowReadUnderLock ==
    [][\A t \in Threads :
          PassesCheck(t) => loc[t].now >= clock /\ loc[t].beaten = -1]_vars

\* C20 (frame of window_start): window_start is written only by a rollover, a
\* call that found count >= threshold and now - window_start > period.  A call
\* of the sequential driver that found count < threshold runs on the
\* under-threshold branch and leaves it as it is, however long ago it was set;
\* a suppressed call emits nothing and changes count only.  With concurrent
\* callers the timestamp changes only by the store of a call that obtained
\* count > threshold and passed the elapsed check under the lock.
C20_WindowStartFrame ==
    [][/\ \A v \in Variants :
            (calls' = calls + 1 /\ obs'[v].last.branch # "none") =>
                /\ obs'[v].last.pre_count < max_per_time =>
                      obs'[v].last.branch = "under"
                /\ obs'[v].last.branch \in {"under", "suppress"} =>
                      obs'[v].last.post_timestamp = obs'[v].last.pre_timestamp
                /\ obs'[v].last.branch = "suppress" =>
                      /\ obs'[v].last.events = <<>>
                      /\ obs'[v].last.post_count = obs'[v].last.pre_count + 1
                /\ obs'[v].last.post_timestamp # obs'[v].last.pre_timestamp =>
                      /\ obs'[v].last.branch = "rollover"
                      /\ obs'[v].last.pre_count >= max_per_time
                      /\ obs'[v].last.now - obs'[v].last.pre_timestamp > period
       /\ (mode \in ConcurrentModes /\ srl.init
             /\ srl'.timestamp # srl.timestamp) =>
             \E t \in Threads :
                 /\ TimestampStore(t)
                 /\ loc[t].rolled
                 /\ loc[t].count > max_per_time
                 /\ loc[t].now - srl.timestamp > period
                 /\ srl'.timestamp = loc[t].now
       /\ rl'.timestamp # rl.timestamp =>
             obs'["RateLimiter"].last.branch = "rollover"
       /\ (mode \notin ConcurrentModes /\ srl.init
             /\ srl'.timestamp # srl.timestamp) =>
             obs'["SynchronisedRateLimiter"].last.branch = "rollover"]_vars

\* C20 witness: a call that found count < threshold more than a period after
\* window_start ran the action in both limiters and left window_start as it
\* was.
C20_Witness ==
    \A v \in Variants :
        /\ obs[v].last.branch = "under"
        /\ obs[v].last.pre_count >= 1
        /\ obs[v].last.now - obs[v].last.pre_timestamp > period
        /\ obs[v].last.post_timestamp = obs[v].last.pre_timestamp

=============================================================================
